---- MODULE Spec2Model ----
(***************************************************************************)
(* Model of the dispatch queue of examples/cpp/dispatch.cpp: a mutex, a    *)
(* condition variable, a FIFO of tasks, a quit flag, thread_cnt worker     *)
(* threads running dispatch_thread_handler, producer threads calling       *)
(* dispatch, and the thread that runs the destructor.                      *)
(*                                                                         *)
(* Every step that touches shared state is one action.  quit_ is a plain   *)
(* bool that the destructor writes without holding lock_, so each read of  *)
(* quit_ by a worker is an action of its own: the destructor's store may   *)
(* fall before or after any of them, and a read returns the old or the new *)
(* value accordingly.                                                      *)
(***************************************************************************)
EXTENDS Integers, Sequences, FiniteSets, TLC

\* ---- bounds ----
MaxWorkers == 2
NumProducers == 1
MaxTasks == 2

VARIABLES thread_cnt, lock_, q_, quit_, wpc, op, ppc, pn,
          dtor_pc, join_i, started, finished, deq, enq, aborted, at_quit

vars == <<thread_cnt, lock_, q_, quit_, wpc, op, ppc, pn,
          dtor_pc, join_i, started, finished, deq, enq, aborted, at_quit>>

Producers == 1..NumProducers
\* threads_: one entry per worker thread; wpc[i] is where thread i stands.
Workers == DOMAIN wpc
threads_size == Cardinality(Workers)

\* A task is identified by the producer that submitted it and the index of
\* the dispatch call; NoTask is an empty std::function.
Tasks == Producers \X (1..MaxTasks)
NoTask == <<0, 0>>

\* History kept for the properties: enq, deq, started are the tasks in the
\* order they were pushed, popped and begun; finished is the set of tasks
\* whose op() returned; at_quit records, at the moment quit_ is written, how
\* many tasks had been pushed and popped, and whether every dispatch call
\* made so far had returned.

\* Owners of lock_.
Free == <<"free", 0>>
W(i) == <<"worker", i>>
P(p) == <<"producer", p>>

WorkerPcs == {"l96", "pred", "wait", "blocked", "wake", "l105", "l111",
              "l113", "running", "l115", "l117", "done"}
ProducerPcs == {"idle", "push", "unlock", "notify"}
DtorPcs == {"idle", "join", "done"}

TypeOK ==
    /\ thread_cnt \in 0..MaxWorkers
    /\ lock_ \in {Free} \cup {W(i) : i \in Workers} \cup {P(p) : p \in Producers}
    /\ q_ \in Seq(Tasks)
    /\ quit_ \in BOOLEAN
    /\ Workers = 1..thread_cnt
    /\ wpc \in [Workers -> WorkerPcs]
    /\ op \in [Workers -> Tasks \cup {NoTask}]
    /\ ppc \in [Producers -> ProducerPcs]
    /\ pn \in [Producers -> 0..MaxTasks]
    /\ dtor_pc \in DtorPcs
    /\ join_i \in 0..thread_cnt
    /\ started \in Seq(Tasks)
    /\ finished \subseteq Tasks
    /\ deq \in Seq(Tasks)
    /\ enq \in Seq(Tasks)
    /\ aborted \in BOOLEAN
    /\ at_quit \in [enq : 0..MaxTasks, deq : 0..MaxTasks, idle : BOOLEAN]

\* Variant of the constructor that never builds an empty threads_ vector.
Init_atleast1 ==
    /\ thread_cnt \in 0..MaxWorkers
    /\ lock_ = Free
    /\ q_ = <<>>
    /\ quit_ = FALSE
    /\ wpc = [i \in 1..(IF thread_cnt = 0 THEN 1 ELSE thread_cnt) |-> "l96"]
    /\ op = [i \in 1..(IF thread_cnt = 0 THEN 1 ELSE thread_cnt) |-> NoTask]
    /\ ppc = [p \in Producers |-> "idle"]
    /\ pn = [p \in Producers |-> 0]
    /\ dtor_pc = "idle"
    /\ join_i = 0
    /\ started = <<>>
    /\ finished = {}
    /\ deq = <<>>
    /\ enq = <<>>
    /\ aborted = FALSE
    /\ at_quit = [enq |-> 0, deq |-> 0, idle |-> TRUE]

\* State after the constructor has returned: the threads exist, none has
\* yet taken lock_ (the constructor held it while spawning them).
Init ==
    /\ thread_cnt \in 0..MaxWorkers
    /\ lock_ = Free
    /\ q_ = <<>>
    /\ quit_ = FALSE
    /\ wpc = [i \in 1..thread_cnt |-> "l96"]
    /\ op = [i \in 1..thread_cnt |-> NoTask]
    /\ ppc = [p \in Producers |-> "idle"]
    /\ pn = [p \in Producers |-> 0]
    /\ dtor_pc = "idle"
    /\ join_i = 0
    /\ started = <<>>
    /\ finished = {}
    /\ deq = <<>>
    /\ enq = <<>>
    /\ aborted = FALSE
    /\ at_quit = [enq |-> 0, deq |-> 0, idle |-> TRUE]

\* ---- condition variable ----
\* Variant of the wake-up that reaches no waiting thread.
notify_none(pc) == pc

\* cv_.notify_all(): every thread blocked in cv_.wait is unblocked and goes
\* on to re-acquire the lock.
notify_all(pc) == [i \in DOMAIN pc |-> IF pc[i] = "blocked" THEN "wake" ELSE pc[i]]

\* The predicate of cv_.wait, line 101.
wait_pred == Len(q_) > 0 \/ quit_

\* ---- dispatch (both overloads: lines 72-81 and 83-92) ----
\* Number of dispatch calls made so far, over all producers.
RECURSIVE SumCalls(_, _)
SumCalls(f, n) == IF n = 0 THEN 0 ELSE f[n] + SumCalls(f, n - 1)

\* Variant of dispatch that pushes without taking lock_.
DispatchLock_nolock(p) ==
    /\ ~aborted
    /\ dtor_pc # "done"
    /\ ppc[p] = "idle"
    /\ SumCalls(pn, NumProducers) < MaxTasks
    /\ ppc' = [ppc EXCEPT ![p] = "push"]
    /\ pn' = [pn EXCEPT ![p] = @ + 1]
    /\ UNCHANGED <<thread_cnt, lock_, q_, quit_, wpc, op, dtor_pc, join_i,
                   started, finished, deq, enq, aborted, at_quit>>

\* A producer thread enters dispatch:
\* std::unique_lock<std::mutex> lock(lock_);   (lines 74, 85)
DispatchLock(p) ==
    /\ ~aborted
    /\ dtor_pc # "done"
    /\ ppc[p] = "idle"
    /\ SumCalls(pn, NumProducers) < MaxTasks
    /\ lock_ = Free
    /\ lock_' = P(p)
    /\ ppc' = [ppc EXCEPT ![p] = "push"]
    /\ pn' = [pn EXCEPT ![p] = @ + 1]
    /\ UNCHANGED <<thread_cnt, q_, quit_, wpc, op, dtor_pc, join_i,
                   started, finished, deq, enq, aborted, at_quit>>

\* Variant of the push that inserts at the head of the queue.
DispatchPush_front(p) ==
    /\ ~aborted
    /\ ppc[p] = "push"
    /\ q_' = <<<<p, pn[p]>>>> \o q_
    /\ enq' = Append(enq, <<p, pn[p]>>)
    /\ ppc' = [ppc EXCEPT ![p] = "unlock"]
    /\ UNCHANGED <<thread_cnt, lock_, quit_, wpc, op, pn, dtor_pc, join_i,
                   started, finished, deq, aborted, at_quit>>

\* q_.push(op);   (lines 75, 86)
DispatchPush(p) ==
    /\ ~aborted
    /\ ppc[p] = "push"
    /\ q_' = Append(q_, <<p, pn[p]>>)
    /\ enq' = Append(enq, <<p, pn[p]>>)
    /\ ppc' = [ppc EXCEPT ![p] = "unlock"]
    /\ UNCHANGED <<thread_cnt, lock_, quit_, wpc, op, pn, dtor_pc, join_i,
                   started, finished, deq, aborted, at_quit>>

\* lock.unlock();
DispatchUnlock(p) ==
    /\ ~aborted
    /\ ppc[p] = "unlock"
    /\ lock_' = Free
    /\ ppc' = [ppc EXCEPT ![p] = "notify"]
    /\ UNCHANGED <<thread_cnt, q_, quit_, wpc, op, pn, dtor_pc, join_i,
                   started, finished, deq, enq, aborted, at_quit>>

\* cv_.notify_all(); and return
DispatchNotify(p) ==
    /\ ~aborted
    /\ ppc[p] = "notify"
    /\ wpc' = notify_all(wpc)
    /\ ppc' = [ppc EXCEPT ![p] = "idle"]
    /\ UNCHANGED <<thread_cnt, lock_, q_, quit_, op, pn, dtor_pc, join_i,
                   started, finished, deq, enq, aborted, at_quit>>

\* ---- dispatch_thread_handler (lines 94-118) ----
\* std::unique_lock<std::mutex> lock(lock_);   (line 96)
WorkerLock(i) ==
    /\ ~aborted
    /\ wpc[i] = "l96"
    /\ lock_ = Free
    /\ lock_' = W(i)
    /\ wpc' = [wpc EXCEPT ![i] = "pred"]
    /\ UNCHANGED <<thread_cnt, q_, quit_, op, ppc, pn, dtor_pc, join_i,
                   started, finished, deq, enq, aborted, at_quit>>

\* Variant of the wait that takes the predicate for true on every return.
WorkerPred_norecheck(i) ==
    /\ ~aborted
    /\ wpc[i] = "pred"
    /\ wpc' = [wpc EXCEPT ![i] = "l105"]
    /\ UNCHANGED <<thread_cnt, lock_, q_, quit_, op, ppc, pn, dtor_pc, join_i,
                   started, finished, deq, enq, aborted, at_quit>>

\* cv_.wait(lock, pred) is while(!pred()) wait(lock): one evaluation of the
\* predicate, with the lock held.
WorkerPred(i) ==
    /\ ~aborted
    /\ wpc[i] = "pred"
    /\ wpc' = [wpc EXCEPT ![i] = IF wait_pred THEN "l105" ELSE "wait"]
    /\ UNCHANGED <<thread_cnt, lock_, q_, quit_, op, ppc, pn, dtor_pc, join_i,
                   started, finished, deq, enq, aborted, at_quit>>

\* wait(lock): atomically release the lock and block.
WorkerBlock(i) ==
    /\ ~aborted
    /\ wpc[i] = "wait"
    /\ lock_' = Free
    /\ wpc' = [wpc EXCEPT ![i] = "blocked"]
    /\ UNCHANGED <<thread_cnt, q_, quit_, op, ppc, pn, dtor_pc, join_i,
                   started, finished, deq, enq, aborted, at_quit>>

\* A blocked wait may return without any notification.
SpuriousWakeup(i) ==
    /\ ~aborted
    /\ wpc[i] = "blocked"
    /\ wpc' = [wpc EXCEPT ![i] = "wake"]
    /\ UNCHANGED <<thread_cnt, lock_, q_, quit_, op, ppc, pn, dtor_pc, join_i,
                   started, finished, deq, enq, aborted, at_quit>>

\* An unblocked wait re-acquires the lock, then the predicate is re-checked.
WorkerWake(i) ==
    /\ ~aborted
    /\ wpc[i] = "wake"
    /\ lock_ = Free
    /\ lock_' = W(i)
    /\ wpc' = [wpc EXCEPT ![i] = "pred"]
    /\ UNCHANGED <<thread_cnt, q_, quit_, op, ppc, pn, dtor_pc, join_i,
                   started, finished, deq, enq, aborted, at_quit>>

\* Variant of the pop that takes q_.front() and leaves it in the queue.
WorkerPop_nopop(i) ==
    /\ ~aborted
    /\ wpc[i] = "l105"
    /\ IF Len(q_) > 0
       THEN /\ op' = [op EXCEPT ![i] = Head(q_)]
            /\ deq' = Append(deq, Head(q_))
            /\ wpc' = [wpc EXCEPT ![i] = "l111"]
            /\ UNCHANGED q_
       ELSE /\ wpc' = [wpc EXCEPT ![i] = "l117"]
            /\ UNCHANGED <<op, q_, deq>>
    /\ UNCHANGED <<thread_cnt, lock_, quit_, ppc, pn, dtor_pc, join_i,
                   started, finished, enq, aborted, at_quit>>

\* Variant of the pop that takes nothing once quit_ is set
\* (if(!quit_ && q_.size())).
WorkerPop_quitskip(i) ==
    /\ ~aborted
    /\ wpc[i] = "l105"
    /\ IF ~quit_ /\ Len(q_) > 0
       THEN /\ op' = [op EXCEPT ![i] = Head(q_)]
            /\ q_' = Tail(q_)
            /\ deq' = Append(deq, Head(q_))
            /\ wpc' = [wpc EXCEPT ![i] = "l111"]
       ELSE /\ wpc' = [wpc EXCEPT ![i] = "l117"]
            /\ UNCHANGED <<op, q_, deq>>
    /\ UNCHANGED <<thread_cnt, lock_, quit_, ppc, pn, dtor_pc, join_i,
                   started, finished, enq, aborted, at_quit>>

\* Variant of the pop that takes the newest task (q_.back()) instead.
WorkerPop_lifo(i) ==
    /\ ~aborted
    /\ wpc[i] = "l105"
    /\ IF Len(q_) > 0
       THEN /\ op' = [op EXCEPT ![i] = q_[Len(q_)]]
            /\ q_' = SubSeq(q_, 1, Len(q_) - 1)
            /\ deq' = Append(deq, q_[Len(q_)])
            /\ wpc' = [wpc EXCEPT ![i] = "l111"]
       ELSE /\ wpc' = [wpc EXCEPT ![i] = "l117"]
            /\ UNCHANGED <<op, q_, deq>>
    /\ UNCHANGED <<thread_cnt, lock_, quit_, ppc, pn, dtor_pc, join_i,
                   started, finished, enq, aborted, at_quit>>

\* if(q_.size()) { auto op = std::move(q_.front()); q_.pop();   (105-108)
WorkerPop(i) ==
    /\ ~aborted
    /\ wpc[i] = "l105"
    /\ IF Len(q_) > 0
       THEN /\ op' = [op EXCEPT ![i] = Head(q_)]
            /\ q_' = Tail(q_)
            /\ deq' = Append(deq, Head(q_))
            /\ wpc' = [wpc EXCEPT ![i] = "l111"]
       ELSE /\ wpc' = [wpc EXCEPT ![i] = "l117"]
            /\ UNCHANGED <<op, q_, deq>>
    /\ UNCHANGED <<thread_cnt, lock_, quit_, ppc, pn, dtor_pc, join_i,
                   started, finished, enq, aborted, at_quit>>

\* Variant of the worker that calls op() with the lock still held.
WorkerUnlock_keep(i) ==
    /\ ~aborted
    /\ wpc[i] = "l111"
    /\ wpc' = [wpc EXCEPT ![i] = "l113"]
    /\ UNCHANGED <<thread_cnt, lock_, q_, quit_, op, ppc, pn, dtor_pc, join_i,
                   started, finished, deq, enq, aborted, at_quit>>

\* lock.unlock();   (line 111)
WorkerUnlock(i) ==
    /\ ~aborted
    /\ wpc[i] = "l111"
    /\ lock_' = Free
    /\ wpc' = [wpc EXCEPT ![i] = "l113"]
    /\ UNCHANGED <<thread_cnt, q_, quit_, op, ppc, pn, dtor_pc, join_i,
                   started, finished, deq, enq, aborted, at_quit>>

\* op();   the call begins   (line 113)
WorkerCall(i) ==
    /\ ~aborted
    /\ wpc[i] = "l113"
    /\ started' = Append(started, op[i])
    /\ wpc' = [wpc EXCEPT ![i] = "running"]
    /\ UNCHANGED <<thread_cnt, lock_, q_, quit_, op, ppc, pn, dtor_pc, join_i,
                   finished, deq, enq, aborted, at_quit>>

\* op() returns; op goes out of scope at the end of the block.
WorkerReturn(i) ==
    /\ ~aborted
    /\ wpc[i] = "running"
    /\ finished' = finished \cup {op[i]}
    /\ op' = [op EXCEPT ![i] = NoTask]
    /\ wpc' = [wpc EXCEPT ![i] = "l115"]
    /\ UNCHANGED <<thread_cnt, lock_, q_, quit_, ppc, pn, dtor_pc, join_i,
                   started, deq, enq, aborted, at_quit>>

\* op() throws: nothing in the handler catches it, the exception leaves the
\* function std::thread runs, and std::terminate ends the process.
WorkerThrow(i) ==
    /\ ~aborted
    /\ wpc[i] = "running"
    /\ aborted' = TRUE
    /\ UNCHANGED <<thread_cnt, lock_, q_, quit_, wpc, op, ppc, pn, dtor_pc,
                   join_i, started, finished, deq, enq, at_quit>>

\* lock.lock();   (line 115)
WorkerRelock(i) ==
    /\ ~aborted
    /\ wpc[i] = "l115"
    /\ lock_ = Free
    /\ lock_' = W(i)
    /\ wpc' = [wpc EXCEPT ![i] = "l117"]
    /\ UNCHANGED <<thread_cnt, q_, quit_, op, ppc, pn, dtor_pc, join_i,
                   started, finished, deq, enq, aborted, at_quit>>

\* Variant of the loop condition that keeps draining:
\* while (!quit_ || q_.size()).
WorkerLoop_drain(i) ==
    /\ ~aborted
    /\ wpc[i] = "l117"
    /\ IF ~quit_ \/ Len(q_) > 0
       THEN /\ wpc' = [wpc EXCEPT ![i] = "pred"]
            /\ UNCHANGED lock_
       ELSE /\ wpc' = [wpc EXCEPT ![i] = "done"]
            /\ lock_' = Free
    /\ UNCHANGED <<thread_cnt, q_, quit_, op, ppc, pn, dtor_pc, join_i,
                   started, finished, deq, enq, aborted, at_quit>>

\* Variant of the loop exit that clears the flag when the worker leaves.
WorkerLoop_clearquit(i) ==
    /\ ~aborted
    /\ wpc[i] = "l117"
    /\ IF ~quit_
       THEN /\ wpc' = [wpc EXCEPT ![i] = "pred"]
            /\ UNCHANGED <<lock_, quit_>>
       ELSE /\ wpc' = [wpc EXCEPT ![i] = "done"]
            /\ lock_' = Free
            /\ quit_' = FALSE
    /\ UNCHANGED <<thread_cnt, q_, op, ppc, pn, dtor_pc, join_i,
                   started, finished, deq, enq, aborted, at_quit>>

\* } while (!quit_);   then the unique_lock releases on scope exit.
WorkerLoop(i) ==
    /\ ~aborted
    /\ wpc[i] = "l117"
    /\ IF ~quit_
       THEN /\ wpc' = [wpc EXCEPT ![i] = "pred"]
            /\ UNCHANGED lock_
       ELSE /\ wpc' = [wpc EXCEPT ![i] = "done"]
            /\ lock_' = Free
    /\ UNCHANGED <<thread_cnt, q_, quit_, op, ppc, pn, dtor_pc, join_i,
                   started, finished, deq, enq, aborted, at_quit>>

\* ---- ~dispatch_queue (lines 55-70) ----
\* The owner lets the queue go out of scope:
\* quit_ = true;   no lock taken, nobody notified.   (line 58)
DtorQuit ==
    /\ ~aborted
    /\ dtor_pc = "idle"
    /\ quit_' = TRUE
    /\ dtor_pc' = "join"
    /\ at_quit' = [enq |-> Len(enq), deq |-> Len(deq),
                   idle |-> \A p \in Producers : ppc[p] = "idle"]
    /\ UNCHANGED <<thread_cnt, lock_, q_, wpc, op, ppc, pn, join_i,
                   started, finished, deq, enq, aborted>>

\* threads_[i].join() returns once thread i has left its function.
DtorJoin ==
    /\ ~aborted
    /\ dtor_pc = "join"
    /\ join_i < threads_size
    /\ wpc[join_i + 1] = "done"
    /\ join_i' = join_i + 1
    /\ UNCHANGED <<thread_cnt, lock_, q_, quit_, wpc, op, ppc, pn, dtor_pc,
                   started, finished, deq, enq, aborted, at_quit>>

\* i == threads_.size(): the loop ends and the destructor body returns.
DtorReturn ==
    /\ ~aborted
    /\ dtor_pc = "join"
    /\ join_i = threads_size
    /\ dtor_pc' = "done"
    /\ UNCHANGED <<thread_cnt, lock_, q_, quit_, wpc, op, ppc, pn, join_i,
                   started, finished, deq, enq, aborted, at_quit>>

Next ==
    \/ \E p \in Producers : DispatchLock(p)
    \/ \E p \in Producers : DispatchPush(p)
    \/ \E p \in Producers : DispatchUnlock(p)
    \/ \E p \in Producers : DispatchNotify(p)
    \/ \E i \in Workers : WorkerLock(i)
    \/ \E i \in Workers : WorkerPred(i)
    \/ \E i \in Workers : WorkerBlock(i)
    \/ \E i \in Workers : SpuriousWakeup(i)
    \/ \E i \in Workers : WorkerWake(i)
    \/ \E i \in Workers : WorkerPop(i)
    \/ \E i \in Workers : WorkerUnlock(i)
    \/ \E i \in Workers : WorkerCall(i)
    \/ \E i \in Workers : WorkerReturn(i)
    \/ \E i \in Workers : WorkerThrow(i)
    \/ \E i \in Workers : WorkerRelock(i)
    \/ \E i \in Workers : WorkerLoop(i)
    \/ DtorQuit
    \/ DtorJoin
    \/ DtorReturn

Spec == Init /\ [][Next]_vars

\* ---- fair scheduling ----
\* Every thread that can take a step of its code eventually does; a thread
\* contending for lock_ eventually gets it.  A spurious wakeup, a throwing
\* task, a new dispatch call and the start of the destructor are not forced.
WorkerStep(i) ==
    /\ i \in Workers
    /\ \/ WorkerPred(i) \/ WorkerBlock(i) \/ WorkerPop(i) \/ WorkerUnlock(i)
       \/ WorkerCall(i) \/ WorkerReturn(i) \/ WorkerLoop(i)

WorkerAcquire(i) ==
    /\ i \in Workers
    /\ \/ WorkerLock(i) \/ WorkerWake(i) \/ WorkerRelock(i)

ProducerStep(p) == DispatchPush(p) \/ DispatchUnlock(p) \/ DispatchNotify(p)

DtorStep == DtorJoin \/ DtorReturn

Fairness ==
    /\ \A i \in 1..MaxWorkers : WF_vars(WorkerStep(i)) /\ SF_vars(WorkerAcquire(i))
    /\ \A p \in Producers : WF_vars(ProducerStep(p))
    /\ WF_vars(DtorStep)

LiveSpec == Init /\ [][Next]_vars /\ Fairness

\* ---- helpers for the properties ----
Count(s, t) == Cardinality({k \in 1..Len(s) : s[k] = t})
Range(s) == {s[k] : k \in 1..Len(s)}

\* The dispatch call that submitted t has returned.
Returned(t) == t \in Range(enq) /\ ~(ppc[t[1]] # "idle" /\ pn[t[1]] = t[2])

\* Every dispatch call had returned when the destructor started, and none
\* was made afterwards.
Clean == quit_ /\ at_quit.idle /\ SumCalls(pn, NumProducers) = at_quit.enq

AllExited == \A i \in Workers : wpc[i] = "done"

\* The tasks of each producer appear in s in the order they were submitted.
OrderedPerProducer(s) ==
    \A a, b \in 1..Len(s) : (a < b /\ s[a][1] = s[b][1]) => s[a][2] < s[b][2]

Waiting == {"pred", "wait", "blocked", "wake"}
Executing == {"l113", "running"}

\* Threads of the pool that are still alive.
LiveWorkers == IF aborted THEN {} ELSE {i \in Workers : wpc[i] # "done"}

\* ---- C1 ----
\* C1 (drain-before-exit): with at least one worker, if every dispatch call
\* returned before the destructor started, then once the destructor has
\* returned the queue is empty and every submitted task has finished.
C1_DrainBeforeExit ==
    (thread_cnt >= 1 /\ Clean /\ dtor_pc = "done")
        => (q_ = <<>> /\ \A t \in Range(enq) : t \in finished)

\* ---- C2 ----
\* C2 (shutdown terminates): under fair scheduling, once quit_ is set the
\* destructor eventually returns, unless a task body throws.
C2_ShutdownTerminates == quit_ ~> (dtor_pc = "done" \/ aborted)

\* ---- C3 ----
\* C3 (exactly-once): with at least one worker and producers that finished
\* before shutdown, once all workers have exited every task whose dispatch
\* returned has been executed exactly once.
C3_ExactlyOnce ==
    (thread_cnt >= 1 /\ Clean /\ AllExited)
        => \A t \in Tasks : Returned(t) => Count(started, t) = 1

\* ---- C4 ----
\* C4 as stated (FIFO execution for any worker count): the tasks of one
\* producer begin execution in the order they were submitted.
C4_FifoStartAnyWorkers == OrderedPerProducer(started)

\* C4 amended: the tasks of one producer are dequeued in the order they
\* were submitted for any worker count, and with a single worker they also
\* begin execution in that order.
C4_FifoAmended ==
    /\ OrderedPerProducer(deq)
    /\ thread_cnt = 1 => OrderedPerProducer(started)

C4_Witness ==
    /\ thread_cnt = 1
    /\ \E a, b \in 1..Len(started) : a < b /\ started[a][1] = started[b][1]

\* ---- C5 ----
\* C5 (worker exit condition): a worker reaches "done" only in a step taken
\* with the queue empty and quit_ set.
C5_ExitOnlyWhenDrained ==
    [][\A i \in Workers : (wpc[i] # "done" /\ wpc'[i] = "done")
            => (q_ = <<>> /\ quit_)]_vars

\* ---- C6 ----
\* C6 (submit never waits for execution): a worker that is about to call,
\* is running or has just finished op() does not hold lock_, so while every
\* worker is executing the lock is free or held by a producer.
C6_NoLockWhileExecuting ==
    /\ \A i \in Workers : wpc[i] \in {"l113", "running", "l115"} => lock_ # W(i)
    /\ (\A i \in Workers : wpc[i] \in Executing)
           => lock_ \in {Free} \cup {P(p) : p \in Producers}

\* Every worker is running a task and a dispatch call has returned whose
\* task is still in the queue, not begun.
C6_Witness ==
    /\ thread_cnt >= 1
    /\ \A i \in Workers : wpc[i] = "running"
    /\ \E p \in Producers :
          /\ ppc[p] = "idle" /\ pn[p] >= 1
          /\ <<p, pn[p]>> \in Range(q_)
          /\ Count(started, <<p, pn[p]>>) = 0

\* ---- C7 ----
\* C7 (idle wait tolerates spurious wakeups): in a step taken with the queue
\* empty and quit_ false, a waiting worker stays waiting and holds no task,
\* and nothing is popped; a pop always happens on a non-empty queue.
C7_IdleWait ==
    [][/\ \A i \in Workers :
              (q_ = <<>> /\ ~quit_ /\ wpc[i] \in Waiting)
                  => (wpc'[i] \in Waiting /\ op'[i] = NoTask /\ deq' = deq)
       /\ deq' # deq => q_ # <<>>]_vars

\* A worker that no dispatch ever notified has left the blocked wait.
C7_Witness ==
    /\ ~quit_ /\ q_ = <<>>
    /\ SumCalls(pn, NumProducers) = 0
    /\ \E i \in Workers : wpc[i] = "wake"

\* ---- C8 ----
\* C8 (zero workers): with thread_cnt = 0 every pushed task stays in the
\* queue, nothing is ever dequeued, begun or finished, also after the
\* destructor has returned.
C8_ZeroWorkers ==
    thread_cnt = 0 =>
        /\ q_ = enq
        /\ deq = <<>> /\ started = <<>> /\ finished = {}
        /\ \A p \in Producers : ppc[p] = "idle" => \A k \in 1..pn[p] : <<p, k>> \in Range(q_)

C8_Witness ==
    /\ thread_cnt = 0
    /\ dtor_pc = "done"
    /\ Len(q_) >= 2
    /\ \A p \in Producers : ppc[p] = "idle"

\* ---- C9 ----
\* C9 (task failure is local to one worker): the step in which a task fails
\* reduces the number of live workers by exactly one.
C9_FailureIsLocal ==
    [][(~aborted /\ aborted')
            => Cardinality(LiveWorkers') = Cardinality(LiveWorkers) - 1]_vars

\* ---- C10 ----
\* C10 (queue content): the queue is exactly the pushed tasks that have not
\* been popped, in push order; no task is pushed twice; the queue changes
\* only by an append at the tail or a removal of the head.
C10_QueueContent ==
    /\ [](enq = deq \o q_)
    /\ [](\A a, b \in 1..Len(enq) : a # b => enq[a] # enq[b])
    /\ [][q_' # q_ => \/ \E t \in Tasks : q_' = Append(q_, t)
                      \/ (q_ # <<>> /\ q_' = Tail(q_))]_vars

\* Two tasks were pushed, the first has been popped, the second is queued.
C10_Witness ==
    /\ Len(enq) >= 2
    /\ Len(deq) >= 1
    /\ Len(q_) >= 1

\* ---- C11 ----
\* Workers that hold task t (popped it and have not yet seen op() return).
Holders(t) == {i \in Workers : op[i] = t}

\* C11 (exclusive task ownership): every pushed task is in exactly one
\* place: once in the queue, or held by exactly one worker, or finished; a
\* task that was never pushed is in none; no task is dequeued twice.
C11_ExclusiveOwnership ==
    \A t \in Tasks :
        /\ Count(deq, t) <= 1
        /\ Count(q_, t) + Cardinality(Holders(t))
             + (IF t \in finished THEN 1 ELSE 0)
           = (IF t \in Range(enq) THEN 1 ELSE 0)

\* Two workers are each running a task of their own.
C11_Witness ==
    /\ thread_cnt >= 2
    /\ \A i \in Workers : wpc[i] = "running" /\ op[i] \in Tasks

\* ---- C12 ----
\* The thread that runs the destructor, as an owner of lock_.
Destructor == <<"destructor", 0>>

\* C12 (quit flag under the lock): the step that writes quit_ is taken by a
\* thread holding lock_; a worker evaluates the wait predicate and the loop
\* condition holding lock_; and no worker goes from a false predicate to
\* the blocked wait with quit_ already set.
C12_QuitUnderLock ==
    [][/\ quit_' # quit_ => lock_ = Destructor
       /\ \A i \in Workers :
            /\ (wpc[i] \in {"pred", "l117"} /\ wpc'[i] # wpc[i]) => lock_ = W(i)
            /\ (wpc[i] = "wait" /\ wpc'[i] = "blocked") => ~quit_]_vars

\* ---- C13 ----
\* Threads that stand between an acquisition and a release of lock_.
InCritical ==
    {W(i) : i \in {j \in Workers : wpc[j] \in {"pred", "wait", "l105", "l111", "l117"}}}
        \cup {P(p) : p \in {r \in Producers : ppc[r] \in {"push", "unlock"}}}

\* C13 (queue mutations are locked): at most one thread is inside a locked
\* region and it is the owner of lock_; every change of q_ is a push by a
\* producer or a pop by a worker that owns lock_ in that step.
C13_QueueMutationsLocked ==
    /\ [](Cardinality(InCritical) <= 1)
    /\ [](InCritical = IF lock_ = Free THEN {} ELSE {lock_})
    /\ [][q_' # q_ =>
            \/ \E p \in Producers :
                  /\ ppc[p] = "push" /\ ppc'[p] = "unlock"
                  /\ lock_ = P(p) /\ lock_' = P(p)
            \/ \E i \in Workers :
                  /\ wpc[i] = "l105" /\ wpc'[i] = "l111"
                  /\ lock_ = W(i) /\ lock_' = W(i)]_vars

\* A producer has just pushed under the lock while a worker contends for
\* it, and a pop has already happened.
C13_Witness ==
    /\ \E p \in Producers : ppc[p] = "unlock" /\ lock_ = P(p)
    /\ \E i \in Workers : wpc[i] \in {"l96", "wake", "l115"}
    /\ Len(deq) >= 1

\* ---- C15 ----
\* C15 (quit flag is monotonic): quit_ is false exactly as long as the
\* destructor has not started; once true it stays true; the only step that
\* changes it is the destructor's first step, in which no producer and no
\* worker moves.
C15_QuitMonotonic ==
    /\ [](quit_ <=> dtor_pc # "idle")
    /\ [][quit_ => quit_']_vars
    /\ [][quit_' # quit_ =>
            /\ dtor_pc = "idle" /\ dtor_pc' = "join"
            /\ ppc' = ppc /\ wpc' = wpc]_vars

\* With quit_ set, a task has been pushed, a task has been popped and a
\* worker has left its loop.
C15_Witness ==
    /\ quit_
    /\ Len(enq) > at_quit.enq
    /\ Len(deq) > at_quit.deq
    /\ \E i \in Workers : wpc[i] = "done"

\* ---- C16 ----
\* C16 (submission racing with shutdown): when the last worker leaves its
\* loop, after which the destructor's joins return, every task that was
\* pushed after quit_ was set (so while that worker had not exited) has
\* been executed.
C16_RacingSubmissionDrained ==
    [][\A i \in Workers :
          (/\ wpc[i] # "done" /\ wpc'[i] = "done"
           /\ \A j \in Workers \ {i} : wpc[j] = "done")
              => \A k \in (at_quit.enq + 1)..Len(enq) : enq[k] \in finished]_vars

\* ---- C17 ----
\* C17 (no more tasks than workers): if at most thread_cnt >= 1 tasks were
\* submitted and every dispatch call had returned when the destructor
\* started, then once every worker has exited the queue is empty and each
\* task has been executed exactly once and has finished.
C17_AtMostWTasks ==
    (thread_cnt >= 1 /\ Clean /\ Len(enq) <= thread_cnt /\ AllExited)
        => /\ q_ = <<>>
           /\ \A t \in Range(enq) : Count(started, t) = 1 /\ t \in finished

\* Two workers, two tasks, both still queued when quit_ was set, and both
\* workers have exited.
C17_Witness ==
    /\ thread_cnt = 2 /\ Clean /\ AllExited
    /\ Len(enq) = 2
    /\ at_quit.deq = 0

\* ---- C18 ----
\* Positions of a worker from its pop to its exit.
AfterPop == {"l111", "l113", "running", "l115", "l117", "done"}

\* C18 (at most one further task per worker): with quit_ set, a worker that
\* has popped a task or stands at the loop condition never goes back to the
\* wait or to the pop, and at most thread_cnt tasks are popped after quit_
\* was set.
C18_OneMoreTaskPerWorker ==
    /\ [](quit_ => Len(deq) - at_quit.deq <= thread_cnt)
    /\ [][\A i \in Workers :
             (quit_ /\ wpc[i] \in AfterPop) => wpc'[i] \in AfterPop]_vars

\* Every worker popped one task after quit_ was set and has exited, and a
\* task is left in the queue.
C18_Witness ==
    /\ thread_cnt >= 1 /\ quit_ /\ AllExited
    /\ Len(deq) - at_quit.deq = thread_cnt
    /\ q_ # <<>>

\* ---- C14 ----
\* The queue while its owner keeps it alive: the destructor never starts.
NextNoShutdown ==
    \/ \E p \in Producers : DispatchLock(p)
    \/ \E p \in Producers : DispatchPush(p)
    \/ \E p \in Producers : DispatchUnlock(p)
    \/ \E p \in Producers : DispatchNotify(p)
    \/ \E i \in Workers : WorkerLock(i)
    \/ \E i \in Workers : WorkerPred(i)
    \/ \E i \in Workers : WorkerBlock(i)
    \/ \E i \in Workers : SpuriousWakeup(i)
    \/ \E i \in Workers : WorkerWake(i)
    \/ \E i \in Workers : WorkerPop(i)
    \/ \E i \in Workers : WorkerUnlock(i)
    \/ \E i \in Workers : WorkerCall(i)
    \/ \E i \in Workers : WorkerReturn(i)
    \/ \E i \in Workers : WorkerThrow(i)
    \/ \E i \in Workers : WorkerRelock(i)
    \/ \E i \in Workers : WorkerLoop(i)

NoShutdownSpec == Init /\ [][NextNoShutdown]_vars /\ Fairness

\* Thread i exists and is blocked in cv_.wait.
Blocked(i) == IF i \in Workers THEN wpc[i] = "blocked" ELSE FALSE

\* C14 (no lost wakeup on submit): with at least one worker, no shutdown
\* and fair scheduling, every task whose dispatch call returned is
\* eventually executed to completion unless a task throws, and no worker
\* stays blocked in the wait for ever while the queue is non-empty.
\* Returned(t) and t \in finished never become false again, so "each
\* returned task eventually finishes" is "again and again, every returned
\* task has finished".
C14_NoLostWakeup ==
    /\ []<>(\/ aborted
            \/ thread_cnt = 0
            \/ \A t \in Tasks : Returned(t) => t \in finished)
    /\ \A i \in 1..MaxWorkers : []<>(~Blocked(i) \/ q_ = <<>> \/ aborted)

\* A worker that was blocked has been notified by a dispatch that has
\* returned, and the task is still in the queue.
C14_Witness ==
    /\ ~quit_
    /\ \A p \in Producers : ppc[p] = "idle"
    /\ Len(q_) = 1 /\ Len(enq) = 1 /\ Returned(q_[1])
    /\ \E i \in Workers : wpc[i] = "wake"

====
